---------------------------- MODULE Spec2Model ----------------------------
(***************************************************************************)
(* A model of kkpy.io (src/kkpy/io.py): the four file readers read_aws,    *)
(* read_2dvd_rho, read_mxpol_rhi_with_hc and read_dem.                     *)
(*                                                                         *)
(* Each reader is a sequential routine; it is modelled as a small state    *)
(* machine whose program counter follows the statements of the function,   *)
(* whose inputs (arguments and the contents of the files it reads) are     *)
(* drawn from bounded sets, and whose outcome is either "returned" with    *)
(* the returned value or "raised" with the name of the exception.          *)
(*                                                                         *)
(* The module names pd, os, Dataset, names, aws_dir and YYYYMMDD are used  *)
(* by the source but are not bound by io.py itself.  The model takes them  *)
(* to be bound in the module's globals to pandas, os, netCDF4.Dataset, the *)
(* AWS column list and the glob prefix/date; with any of them unbound the  *)
(* function that uses it raises NameError at its first use.                *)
(*                                                                         *)
(* Floating point values are pairs: <<"float", n>> or NaN.                 *)
(***************************************************************************)
EXTENDS Integers, Sequences, FiniteSets, TLC

VARIABLES dem, aws, dvd, mxp

vars == <<dem, aws, dvd, mxp>>

(***************************************************************************)
(* Common helpers                                                          *)
(***************************************************************************)

\* numpy float values: a number or NaN
NaN == <<"nan", 0>>

FloatOf(n) == <<"float", n>>

IsNaN(x) == x[1] = "nan"

\* Python's  a in s  for two strings (sequences of characters): substring
StrIn(a, s) ==
    \E k \in 0..(Len(s) - Len(a)) : SubSeq(s, k + 1, k + Len(a)) = a

\* the state of a reader that is not under study in a specification
Idle == [pc |-> "idle"]

(***************************************************************************)
(* read_dem(file=None, area='pyeongchang')                                 *)
(***************************************************************************)

\* bounds of the raw raster
MaxDemRows == 2

MaxDemCols == 2

\* raw elevation values of the raster (integers; <= 0 codes missing)
DemValues == {-1, 0, 3}

Rasters ==
    UNION { [1..r -> [1..c -> DemValues]] :
                r \in 1..MaxDemRows, c \in 1..MaxDemCols }

s_pyeongchang == <<"p","y","e","o","n","g","c","h","a","n","g">>

s_korea == <<"k","o","r","e","a">>

\* the area arguments tried
Areas ==
    { s_pyeongchang, s_korea,
      <<"k","o","r">>, <<"c","h","a","n","g">>, <<>>,
      <<"s","e","o","u","l">>, <<"K","o","r","e","a">>,
      <<"k","o","r","e","a","n">> }

\* the file arguments tried
DemFiles == {"None", "./pyeongchang_90m.tif"}

path_pyeongchang == "/disk/WORKSPACE/kwonil/SRTM3_V2.1/TIF/pyeongchang_90m.tif"

path_korea == "/disk/WORKSPACE/kwonil/SRTM3_V2.1/TIF/korea_90m.tif"

\* dem.astype(float)
AsTypeFloat(m) == [i \in DOMAIN m |-> [j \in DOMAIN m[i] |-> FloatOf(m[i][j])]]

\* a mask that keeps zero: dem[dem < 0] = np.nan
MaskNegative(m) ==
    [i \in DOMAIN m |->
        [j \in DOMAIN m[i] |->
            IF (~IsNaN(m[i][j])) /\ m[i][j][2] < 0 THEN NaN ELSE m[i][j]]]

\* dem[dem <= 0] = np.nan
MaskNonPositive(m) ==
    [i \in DOMAIN m |->
        [j \in DOMAIN m[i] |->
            IF (~IsNaN(m[i][j])) /\ m[i][j][2] <= 0 THEN NaN ELSE m[i][j]]]

\* dem.T
Transpose(m) ==
    [j \in 1..Len(m[1]) |-> [i \in 1..Len(m) |-> m[i][j]]]

\* area in 'pyeongchang'
AreaIsPyeongchang(a) == StrIn(a, s_pyeongchang)

\* area in 'korea'
AreaIsKorea(a) == StrIn(a, s_korea)

InitDemState ==
    \E f \in DemFiles, a \in Areas :
        dem = [pc |-> "open", file |-> f, area |-> a,
               opened |-> "None", ds_bound |-> FALSE, ds |-> <<>>,
               printed |-> FALSE, dem |-> <<>>, err |-> "none"]

\* wrl.io.open_raster(path): binds ds to the raster stored at path
OpenRaster(path, raw) ==
    dem' = [dem EXCEPT !.pc = "extract", !.opened = path,
                       !.ds_bound = TRUE, !.ds = raw]

\* if file is not None: ds = wrl.io.open_raster(file)
DemOpenFile ==
    /\ dem.pc = "open"
    /\ dem.file # "None"
    /\ \E raw \in Rasters : OpenRaster(dem.file, raw)
    /\ UNCHANGED <<aws, dvd, mxp>>

\* if area in 'pyeongchang': ds = wrl.io.open_raster(<pyeongchang preset>)
DemOpenPyeongchang ==
    /\ dem.pc = "open"
    /\ dem.file = "None"
    /\ AreaIsPyeongchang(dem.area)
    /\ \E raw \in Rasters : OpenRaster(path_pyeongchang, raw)
    /\ UNCHANGED <<aws, dvd, mxp>>

\* elif area in 'korea': ds = wrl.io.open_raster(<korea preset>)
DemOpenKorea ==
    /\ dem.pc = "open"
    /\ dem.file = "None"
    /\ ~AreaIsPyeongchang(dem.area)
    /\ AreaIsKorea(dem.area)
    /\ \E raw \in Rasters : OpenRaster(path_korea, raw)
    /\ UNCHANGED <<aws, dvd, mxp>>

\* else: print('Please check area argument')
DemPrintDiagnostic ==
    /\ dem.pc = "open"
    /\ dem.file = "None"
    /\ ~AreaIsPyeongchang(dem.area)
    /\ ~AreaIsKorea(dem.area)
    /\ dem' = [dem EXCEPT !.pc = "extract", !.printed = TRUE]
    /\ UNCHANGED <<aws, dvd, mxp>>

\* extract_raster_dataset(ds) with ds bound; astype, mask, transpose; return
DemExtract ==
    /\ dem.pc = "extract"
    /\ dem.ds_bound
    /\ dem' = [dem EXCEPT !.pc = "returned",
                          !.dem = Transpose(MaskNonPositive(AsTypeFloat(dem.ds)))]
    /\ UNCHANGED <<aws, dvd, mxp>>

\* extract_raster_dataset(ds) with ds never assigned: UnboundLocalError
DemUnbound ==
    /\ dem.pc = "extract"
    /\ ~dem.ds_bound
    /\ dem' = [dem EXCEPT !.pc = "raised", !.err = "UnboundLocalError"]
    /\ UNCHANGED <<aws, dvd, mxp>>

InitDem ==
    /\ InitDemState
    /\ aws = Idle
    /\ dvd = Idle
    /\ mxp = Idle

NextDem ==
    \/ DemOpenFile
    \/ DemOpenPyeongchang
    \/ DemOpenKorea
    \/ DemPrintDiagnostic
    \/ DemExtract
    \/ DemUnbound

SpecDem == InitDem /\ [][NextDem]_vars


\* C7: whenever read_dem returns, a raw raster of shape (rows, cols) gives a
\* grid of shape (cols, rows) with out[j][i] = NaN where raw[i][j] <= 0 and
\* out[j][i] = float(raw[i][j]) where raw[i][j] > 0.
C7_DemMaskTranspose ==
    dem.pc = "returned" =>
        LET raw == dem.ds
            out == dem.dem
        IN  /\ Len(out) = Len(raw[1])
            /\ \A j \in 1..Len(out) :
                 /\ Len(out[j]) = Len(raw)
                 /\ \A i \in 1..Len(raw) :
                      /\ raw[i][j] <= 0 => out[j][i] = NaN
                      /\ raw[i][j] > 0 => out[j][i] = <<"float", raw[i][j]>>

\* C7 witness: a non-square raster holding a value <= 0 and a value > 0 was
\* read and returned.
C7_Witness ==
    /\ dem.pc = "returned"
    /\ Len(dem.ds) = 1
    /\ Len(dem.ds[1]) = 2
    /\ dem.ds[1][1] = 0
    /\ dem.ds[1][2] > 0
    /\ dem.dem = <<<<NaN>>, <<FloatOf(dem.ds[1][2])>>>>

\* C8: without a file path a preset raster is opened only for the exact
\* names 'pyeongchang' and 'korea' (each its own path); any other area opens
\* nothing, prints the diagnostic and fails on the unbound handle; with a
\* file path that file is opened whatever the area.
C8_PresetOnlyExactName ==
    dem.pc # "open" =>
        /\ dem.file # "None" => dem.opened = dem.file
        /\ (dem.file = "None" /\ dem.area = s_pyeongchang)
              => dem.opened = path_pyeongchang
        /\ (dem.file = "None" /\ dem.area = s_korea)
              => dem.opened = path_korea
        /\ (dem.file = "None" /\ dem.area \notin {s_pyeongchang, s_korea})
              => /\ dem.opened = "None"
                 /\ dem.printed
                 /\ dem.pc # "returned"

(***************************************************************************)
(* read_aws(time=None, datadir=..., date_range=True)                       *)
(***************************************************************************)

\* bounds: files found by the glob, rows per file
MaxAwsFiles == 2

MaxAwsRows == 2

\* the station code kept
AwsStation == 100

\* lexicographic order of strings (sequences of character codes)
RECURSIVE LexLess(_, _)
LexLess(a, b) ==
    IF a = <<>> THEN b # <<>>
    ELSE IF b = <<>> THEN FALSE
    ELSE IF a[1] # b[1] THEN a[1] < b[1]
    ELSE LexLess(Tail(a), Tail(b))

RECURSIVE Insert(_, _)
Insert(x, s) ==
    IF s = <<>> THEN <<x>>
    ELSE IF LexLess(s[1], x) THEN <<s[1]>> \o Insert(x, Tail(s))
    ELSE <<x>> \o s

\* np.sort of a list of strings
RECURSIVE NpSort(_)
NpSort(s) == IF s = <<>> THEN <<>> ELSE Insert(s[1], NpSort(Tail(s)))

\* the lists glob.glob may return for a set of matching paths: any order
Listings(S) ==
    { q \in [1..Cardinality(S) -> S] : \A x \in S : \E k \in DOMAIN q : q[k] = x }

\* file names AWS_MIN_<YYYYMMDD>..., told apart by their two last digits
AwsNames == { <<k \div 10, k % 10>> : k \in 1..MaxAwsFiles }

\* a raw row of a file: station code and a field stored as tenths (wd stands
\* for wd, ws, t, rh, pa, ps, rn60m_acc, rn1d, rn15m, rn60m, wds, wss)
AwsRawRows == [stn : {AwsStation, 90}, wd : {0, 15}]

AwsContents == UNION { [1..n -> AwsRawRows] : n \in 1..MaxAwsRows }

\* data.wd = data.wd/10. (and the eleven other fields): n tenths
Rescale(rows) ==
    [k \in DOMAIN rows |-> [stn |-> rows[k].stn, wd |-> <<"tenths", rows[k].wd>>]]

\* data[data.stn == 100]
StationRows(rows) == SelectSeq(rows, LAMBDA r : r.stn = AwsStation)

\* taking the last matching row: .values.tolist()[-1]
LastRow(kept) == kept[Len(kept)]

\* .values.tolist()[0]
FirstRow(kept) == kept[1]

InitAwsState ==
    \E S \in SUBSET AwsNames :
        \E content \in [S -> AwsContents] :
            aws = [pc |-> "glob", content |-> content, filearr_1d |-> <<>>,
                   i |-> 1, list_aws |-> <<>>, df_aws |-> <<>>, err |-> "none"]

\* filearr_1d = np.sort(glob.glob(...))
AwsGlob ==
    /\ aws.pc = "glob"
    /\ \E q \in Listings(DOMAIN aws.content) :
          aws' = [aws EXCEPT !.pc = "loop", !.filearr_1d = NpSort(q)]
    /\ UNCHANGED <<dem, dvd, mxp>>

\* one pass of the loop: read, rescale, append the first station-100 row
AwsReadFile ==
    /\ aws.pc = "loop"
    /\ aws.i <= Len(aws.filearr_1d)
    /\ LET data == Rescale(aws.content[aws.filearr_1d[aws.i]])
           kept == StationRows(data)
       IN  /\ kept # <<>>
           /\ aws' = [aws EXCEPT !.i = @ + 1,
                                 !.list_aws = Append(@, FirstRow(kept))]
    /\ UNCHANGED <<dem, dvd, mxp>>

\* .values.tolist()[0] on a file without a station-100 row: IndexError
AwsNoStationRow ==
    /\ aws.pc = "loop"
    /\ aws.i <= Len(aws.filearr_1d)
    /\ StationRows(Rescale(aws.content[aws.filearr_1d[aws.i]])) = <<>>
    /\ aws' = [aws EXCEPT !.pc = "raised", !.err = "IndexError"]
    /\ UNCHANGED <<dem, dvd, mxp>>

\* df_aws = pd.DataFrame(list_aws, columns=names); return df_aws
AwsReturn ==
    /\ aws.pc = "loop"
    /\ aws.i > Len(aws.filearr_1d)
    /\ aws' = [aws EXCEPT !.pc = "returned", !.df_aws = aws.list_aws]
    /\ UNCHANGED <<dem, dvd, mxp>>

InitAws ==
    /\ InitAwsState
    /\ dem = Idle
    /\ dvd = Idle
    /\ mxp = Idle

NextAws ==
    \/ AwsGlob
    \/ AwsReadFile
    \/ AwsNoStationRow
    \/ AwsReturn

SpecAws == InitAws /\ [][NextAws]_vars

\* every file holds at least one row of station 100
AwsAllHaveStation ==
    \A f \in DOMAIN aws.content :
        \E k \in DOMAIN aws.content[f] : aws.content[f][k].stn = AwsStation

\* C6 as stated: for any file contents the call returns a table with one row
\* per discovered file, every row of station 100.
C6_OneRowPerFile ==
    aws.pc \notin {"glob", "loop"} =>
        /\ aws.pc = "returned"
        /\ Len(aws.df_aws) = Cardinality(DOMAIN aws.content)
        /\ \A k \in DOMAIN aws.df_aws : aws.df_aws[k].stn = AwsStation

\* C6 amended: when every discovered file holds at least one station-100 row
\* the call returns one row per file, the first station-100 row of that file
\* in sorted file order; when some file holds none the call raises IndexError
\* and returns no table.
C6_OneRowPerFileWithStation ==
    aws.pc \notin {"glob", "loop"} =>
        IF AwsAllHaveStation
        THEN /\ aws.pc = "returned"
             /\ Len(aws.df_aws) = Cardinality(DOMAIN aws.content)
             /\ \A k \in DOMAIN aws.df_aws :
                  LET rows == aws.content[aws.filearr_1d[k]]
                      first == CHOOSE n \in DOMAIN rows :
                                 /\ rows[n].stn = AwsStation
                                 /\ \A m \in 1..(n - 1) : rows[m].stn # AwsStation
                  IN  /\ aws.df_aws[k].stn = AwsStation
                      /\ aws.df_aws[k].wd = <<"tenths", rows[first].wd>>
        ELSE /\ aws.pc = "raised"
             /\ aws.err = "IndexError"

\* C6 witness: two files, one with several station-100 rows and one with
\* mixed station codes, gave a two-row table.
C6_Witness ==
    /\ aws.pc = "returned"
    /\ Len(aws.df_aws) = 2
    /\ \E f \in DOMAIN aws.content :
          Len(StationRows(aws.content[f])) = 2
    /\ \E f \in DOMAIN aws.content :
          /\ Len(aws.content[f]) = 2
          /\ aws.content[f][1].stn # AwsStation

(***************************************************************************)
(* read_2dvd_rho(time=None, datadir=..., date_range=True)                  *)
(*                                                                         *)
(* A path is a sequence of character codes: digits are 0..9, the other     *)
(* characters are codes >= 10.  A matching path is a directory character,  *)
(* the eight digits of the date and the nineteen characters that follow    *)
(* the date in the basename (the constant head '2DVD_Dapp_v_rho_' of every *)
(* basename is left out).  np.int is taken to be the integer conversion.   *)
(***************************************************************************)

\* bounds: files found by the glob, rows per file
MaxDvdFiles == 2

MaxDvdRows == 2

\* the nineteen characters after the date, ending in 'Deq.txt'
DvdTail == [k \in 1..19 |-> 20]

d_20171224 == <<2, 0, 1, 7, 1, 2, 2, 4>>

d_20171225 == <<2, 0, 1, 7, 1, 2, 2, 5>>

d_20180228 == <<2, 0, 1, 8, 0, 2, 2, 8>>

\* the paths the directory tree may hold (10 and 11 are two subdirectories)
DvdPaths ==
    { <<10>> \o d_20171224 \o DvdTail, <<10>> \o d_20171225 \o DvdTail,
      <<11>> \o d_20171224 \o DvdTail, <<10>> \o d_20180228 \o DvdTail }

\* raw rows of a file: the hhmm column and one data column
DvdRawRows == { [hhmm |-> 930, VEL |-> 1], [hhmm |-> 2359, VEL |-> 2] }

DvdContents == UNION { [1..n -> DvdRawRows] : n \in 1..MaxDvdRows }

\* datetime.datetime values <<year, month, day, hour, minute>>
DvdTimes ==
    { <<2017, 12, 24, 0, 0>>, <<2017, 12, 24, 6, 0>>, <<2017, 12, 25, 0, 0>> }

\* the time arguments tried: None, or a list of one or two datetimes
DvdTimeArgs ==
    {[isNone |-> TRUE, v |-> <<>>]} \cup
    { [isNone |-> FALSE, v |-> q] : q \in [1..1 -> DvdTimes] \cup [1..2 -> DvdTimes] }

\* s[a:b] with negative a and b
PySlice(s, a, b) == SubSeq(s, Len(s) + a + 1, Len(s) + b)

\* int() of a string of digits
RECURSIVE ParseInt(_)
ParseInt(ds) ==
    IF ds = <<>> THEN 0 ELSE 10 * ParseInt(SubSeq(ds, 1, Len(ds) - 1)) + ds[Len(ds)]

\* os.path.basename: what follows the directory
Basename(path) == Tail(path)

\* datetime.datetime(yyyy, mm, dd) from the basename's slices
FileDate(path) ==
    <<ParseInt(PySlice(Basename(path), -27, -23)),
      ParseInt(PySlice(Basename(path), -23, -21)),
      ParseInt(PySlice(Basename(path), -21, -19)), 0, 0>>

\* a range closed at its end: (dt >= dt_start) & (dt <= dt_finis)
DvdInRangeClosed(dt, dt_start, dt_finis) ==
    (~LexLess(dt, dt_start)) /\ ~LexLess(dt_finis, dt)

\* (dt >= dt_start) & (dt < dt_finis)
DvdInRange(dt, dt_start, dt_finis) ==
    (~LexLess(dt, dt_start)) /\ LexLess(dt, dt_finis)

\* numpy boolean-mask indexing s[m]
RECURSIVE BoolIndex(_, _)
BoolIndex(s, m) ==
    IF s = <<>> THEN <<>>
    ELSE (IF m[1] THEN <<s[1]>> ELSE <<>>) \o BoolIndex(Tail(s), Tail(m))

\* the frame appended for one file: jultime from the file date and hhmm
DvdFrame(rows, dt) ==
    [k \in DOMAIN rows |->
        LET hour == rows[k].hhmm \div 100
            minute == rows[k].hhmm % 100
            jultime == <<dt[1], dt[2], dt[3], hour, minute>>
        IN  [jultime |-> jultime, VEL |-> rows[k].VEL, jultime_minute |-> jultime]]

\* pd.concat(dflist, ignore_index=True)
RECURSIVE Concat(_)
Concat(frames) ==
    IF frames = <<>> THEN <<>> ELSE frames[1] \o Concat(Tail(frames))

InitDvdState ==
    \E S \in SUBSET DvdPaths, t \in DvdTimeArgs, r \in BOOLEAN :
        /\ Cardinality(S) <= MaxDvdFiles
        /\ \E content \in [S -> DvdContents] :
              dvd = [pc |-> "glob", content |-> content, time |-> t,
                     date_range |-> r, filearr |-> <<>>, dt_filearr |-> <<>>,
                     i |-> 1, dflist |-> <<>>, df_2dvd_drop |-> <<>>,
                     err |-> "none"]

\* filearr = np.sort(glob.glob(...)); dt_filearr from the basenames
DvdGlob ==
    /\ dvd.pc = "glob"
    /\ \E q \in Listings(DOMAIN dvd.content) :
          LET sorted == NpSort(q)
          IN  dvd' = [dvd EXCEPT !.pc = "select", !.filearr = sorted,
                         !.dt_filearr = [k \in DOMAIN sorted |-> FileDate(sorted[k])]]
    /\ UNCHANGED <<dem, aws, mxp>>

\* len(time) with time=None: TypeError
DvdTimeNone ==
    /\ dvd.pc = "select"
    /\ dvd.time.isNone
    /\ dvd' = [dvd EXCEPT !.pc = "raised", !.err = "TypeError"]
    /\ UNCHANGED <<dem, aws, mxp>>

\* if (len(time) == 2) & date_range: keep the files dated in [start, finis)
DvdSelect ==
    /\ dvd.pc = "select"
    /\ ~dvd.time.isNone
    /\ Len(dvd.time.v) = 2 /\ dvd.date_range
    /\ LET mask == [k \in DOMAIN dvd.dt_filearr |->
                       DvdInRange(dvd.dt_filearr[k], dvd.time.v[1], dvd.time.v[2])]
       IN  dvd' = [dvd EXCEPT !.pc = "loop",
                       !.filearr = BoolIndex(dvd.filearr, mask),
                       !.dt_filearr = BoolIndex(dvd.dt_filearr, mask)]
    /\ UNCHANGED <<dem, aws, mxp>>

\* the condition is false: every file is kept
DvdKeepAll ==
    /\ dvd.pc = "select"
    /\ ~dvd.time.isNone
    /\ ~(Len(dvd.time.v) = 2 /\ dvd.date_range)
    /\ dvd' = [dvd EXCEPT !.pc = "loop"]
    /\ UNCHANGED <<dem, aws, mxp>>

\* one pass of the loop: read the file, derive jultime, append the frame
DvdReadFile ==
    /\ dvd.pc = "loop"
    /\ dvd.i <= Len(dvd.filearr)
    /\ dvd' = [dvd EXCEPT !.i = @ + 1,
                   !.dflist = Append(@, DvdFrame(dvd.content[dvd.filearr[dvd.i]],
                                                 dvd.dt_filearr[dvd.i]))]
    /\ UNCHANGED <<dem, aws, mxp>>

\* pd.concat(dflist, ...); set_index; return
DvdConcat ==
    /\ dvd.pc = "loop"
    /\ dvd.i > Len(dvd.filearr)
    /\ dvd.dflist # <<>>
    /\ dvd' = [dvd EXCEPT !.pc = "returned", !.df_2dvd_drop = Concat(dvd.dflist)]
    /\ UNCHANGED <<dem, aws, mxp>>

\* pd.concat([]): ValueError('No objects to concatenate')
DvdConcatNothing ==
    /\ dvd.pc = "loop"
    /\ dvd.i > Len(dvd.filearr)
    /\ dvd.dflist = <<>>
    /\ dvd' = [dvd EXCEPT !.pc = "raised", !.err = "ValueError"]
    /\ UNCHANGED <<dem, aws, mxp>>

InitDvd ==
    /\ InitDvdState
    /\ dem = Idle
    /\ aws = Idle
    /\ mxp = Idle

NextDvd ==
    \/ DvdGlob
    \/ DvdTimeNone
    \/ DvdSelect
    \/ DvdKeepAll
    \/ DvdReadFile
    \/ DvdConcat
    \/ DvdConcatNothing

SpecDvd == InitDvd /\ [][NextDvd]_vars

\* the call was made with a two-element range and date_range true
DvdRanged == (~dvd.time.isNone) /\ Len(dvd.time.v) = 2 /\ dvd.date_range

\* the date embedded in a path, read from the front of the basename
DvdEmbedded(path) ==
    <<1000 * path[2] + 100 * path[3] + 10 * path[4] + path[5],
      10 * path[6] + path[7], 10 * path[8] + path[9], 0, 0>>

\* the files the call is to read: all of them, or those dated in [start, end)
DvdWanted ==
    IF DvdRanged
    THEN { f \in DOMAIN dvd.content :
             /\ ~LexLess(DvdEmbedded(f), dvd.time.v[1])
             /\ LexLess(DvdEmbedded(f), dvd.time.v[2]) }
    ELSE DOMAIN dvd.content

\* the rows of the wanted files, in increasing path order
DvdWantedRows ==
    LET inOrder == CHOOSE q \in [1..Cardinality(DvdWanted) -> DvdWanted] :
                      \A a, b \in DOMAIN q : a < b => LexLess(q[a], q[b])
    IN  Concat([k \in DOMAIN inOrder |->
                   DvdFrame(dvd.content[inOrder[k]], DvdEmbedded(inOrder[k]))])

\* C4: when the set of discovered files is empty (nothing matches, or the
\* range excludes every file) the call returns an empty result.
C4_EmptyListEmptyResult ==
    (dvd.pc \in {"returned", "raised"} /\ ~dvd.time.isNone /\ DvdWanted = {})
        => (dvd.pc = "returned" /\ dvd.df_2dvd_drop = <<>>)

MaxRays == 2

MaxOdd == 2

k_AG == <<"A", "G">>

k_CR == <<"C", "R">>

k_IH == <<"I", "H">>

k_LR == <<"L", "R">>

k_MH == <<"M", "H">>

k_RN == <<"R", "N">>

k_RP == <<"R", "P">>

k_WS == <<"W", "S">>

k_header == <<"_", "_", "h", "e", "a", "d", "e", "r", "_", "_">>

k_version == <<"_", "_", "v", "e", "r", "s", "i", "o", "n", "_", "_">>

k_globals == <<"_", "_", "g", "l", "o", "b", "a", "l", "s", "_", "_">>

k_HC == <<"H", "C">>

k_KDP == <<"K", "D", "P">>

k_ZDR == <<"Z", "D", "R">>

k_ZHH == <<"Z", "H", "H">>

\* list_str: the layers added as fields, in this order
list_str == <<k_AG, k_CR, k_IH, k_LR, k_MH, k_RN, k_RP, k_WS>>

Habits == { list_str[n] : n \in DOMAIN list_str }

\* the keys scipy.io.loadmat adds to every bundle
ReservedKeys == <<k_header, k_version, k_globals>>

\* a sequence with the elements at a and b exchanged
Swap(q, a, b) ==
    [n \in DOMAIN q |-> IF n = a THEN q[b] ELSE IF n = b THEN q[a] ELSE q[n]]

\* a sequence without its element at a
Drop(q, a) == SubSeq(q, 1, a - 1) \o SubSeq(q, a + 1, Len(q))

\* the orders in which the bundle may yield its keys
KeyOrders ==
    { ReservedKeys \o list_str,
      list_str \o ReservedKeys,
      SubSeq(list_str, 1, 3) \o ReservedKeys \o SubSeq(list_str, 4, 8),
      ReservedKeys \o <<k_AG>>,
      ReservedKeys \o <<k_AG, k_RN>>,
      ReservedKeys \o <<k_RN, k_AG, k_CR>> }
    \cup { Swap(list_str, a, b) : a, b \in DOMAIN list_str }
    \cup { Drop(list_str, a) : a \in DOMAIN list_str }

\* a few of them
FewKeyOrders ==
    { ReservedKeys \o list_str, Swap(list_str, 1, 2), Drop(list_str, 1),
      Drop(list_str, 8), ReservedKeys \o <<k_AG>> }

KeySet(order) == { order[n] : n \in DOMAIN order }

\* proportions of the eight layers at the gate: at most MaxOdd layers differ
\* from the common value, by being larger or by being NaN
GateVectors ==
    { v \in [Habits -> {FloatOf(1), FloatOf(2), NaN}] :
        Cardinality({ h \in Habits : v[h] # FloatOf(1) }) <= MaxOdd }

\* a few of them
FewGateVectors ==
    { [h \in Habits |-> FloatOf(1)],
      [h \in Habits |-> IF h = k_RN THEN FloatOf(2) ELSE FloatOf(1)] }

\* rays of the volume: elevation and azimuth in degrees
Rays == [El : {5, 90, 175}, Az : {-360, -10, 10, 350}]

Volumes == UNION { [1..n -> Rays] : n \in 1..MaxRays }

\* a few of them
FewVolumes == { <<[El |-> 90, Az |-> 10]>>, <<[El |-> 5, Az |-> 10]>> }

\* '_' in i
HasUnderscore(key) == StrIn(<<"_">>, key)

\* i in 'AG'
IsInAG(key) == StrIn(key, k_AG)

\* np.logical_and(El > 5, El < 175)
ElevationMask(El) == [n \in DOMAIN El |-> El[n] > 5 /\ El[n] < 175]

\* np.argmax along the layer axis: the first NaN if there is one, else the
\* first largest value; zero-based
ArgMax(stack) ==
    LET nans == { n \in DOMAIN stack : IsNaN(stack[n]) }
        tops == { n \in DOMAIN stack :
                    \A m \in DOMAIN stack : stack[m][2] <= stack[n][2] }
        first(S) == CHOOSE n \in S : \A m \in S : n <= m
    IN  (IF nans # {} THEN first(nans) ELSE first(tops)) - 1

\* the mask taken from the last layer: HC3d_proportion[:,:,-1]
NanMaskLastLayer(stack) == stack[Len(stack)]

\* HC[np.isnan(HC3d_proportion[:,:,0])] = np.nan
NanMaskLayer(stack) == stack[1]

\* HC = np.float_(np.argmax(...)); HC[isnan(first layer)] = nan, at a gate
MostProbableHabit(stack) ==
    IF IsNaN(NanMaskLayer(stack)) THEN NaN ELSE FloatOf(ArgMax(stack))

\* an array of nrays rays holding the value v at the gate of every ray
Filled(nrays, v) == [n \in 1..nrays |-> v]

\* a wraparound of each element: azimuth[azimuth < 0] += 360
AzimuthWrapEach(azimuth) ==
    [n \in DOMAIN azimuth |-> IF azimuth[n] < 0 THEN azimuth[n] + 360 ELSE azimuth[n]]

\* if azimuth[0] < 0: azimuth += 360
AzimuthCorrect(azimuth) ==
    IF azimuth[1] < 0 THEN [n \in DOMAIN azimuth |-> azimuth[n] + 360]
    ELSE azimuth

\* a field loop that passes over the layers the bundle lacks
NoMissingHabits(order) == {}

\* the keys of list_str that the bundle lacks
MissingHabits(order) == Habits \ KeySet(order)

\* pyart.testing.make_empty_rhi_radar(ngates, rays_per_sweep, 1)
EmptyRadar(nrays) ==
    [nrays |-> nrays, fields |-> << >>, elevation |-> <<>>, azimuth |-> <<>>,
     fixed_angle |-> <<>>, time |-> <<>>]

MxpState(order, v, nb, vol) ==
    [pc |-> "load", keys |-> order,
     gate |-> [h \in Habits \cap KeySet(order) |-> v[h]], nb |-> nb,
     volume |-> vol, wh_hc |-> <<>>, El |-> <<>>, i |-> 1,
     HC3d_bound |-> FALSE, HC3d_proportion |-> <<>>, hc_done |-> FALSE,
     HC |-> <<>>, radar |-> EmptyRadar(0), err |-> "none"]

\* lines 167-175: load both files, mask the elevation, make the radar
MxpLoad ==
    /\ mxp.pc = "load"
    /\ k_AG \in KeySet(mxp.keys)
    /\ LET El == [n \in DOMAIN mxp.volume |-> mxp.volume[n].El]
           wh == ElevationMask(El)
       IN  mxp' = [mxp EXCEPT !.pc = "stack", !.wh_hc = wh,
                       !.El = BoolIndex(El, wh), !.radar = EmptyRadar(mxp.nb)]
    /\ UNCHANGED <<dem, aws, dvd>>

\* line 175: HC_proportion['AG'] on a bundle without AG: KeyError
MxpNoAG ==
    /\ mxp.pc = "load"
    /\ k_AG \notin KeySet(mxp.keys)
    /\ mxp' = [mxp EXCEPT !.pc = "raised", !.err = "KeyError"]
    /\ UNCHANGED <<dem, aws, dvd>>

\* line 180: if '_' in i: continue
MxpSkipReserved ==
    /\ mxp.pc = "stack"
    /\ mxp.i <= Len(mxp.keys)
    /\ HasUnderscore(mxp.keys[mxp.i])
    /\ mxp' = [mxp EXCEPT !.i = @ + 1]
    /\ UNCHANGED <<dem, aws, dvd>>

\* lines 182-183: if i in 'AG': HC3d_proportion = np.array(HC_proportion[i])
MxpStartStack ==
    /\ mxp.pc = "stack"
    /\ mxp.i <= Len(mxp.keys)
    /\ ~HasUnderscore(mxp.keys[mxp.i])
    /\ IsInAG(mxp.keys[mxp.i])
    /\ mxp' = [mxp EXCEPT !.i = @ + 1, !.HC3d_bound = TRUE,
                   !.HC3d_proportion = <<mxp.gate[mxp.keys[mxp.i]]>>]
    /\ UNCHANGED <<dem, aws, dvd>>

\* line 185: HC3d_proportion = np.dstack([HC3d_proportion, HC_proportion[i]])
MxpStack ==
    /\ mxp.pc = "stack"
    /\ mxp.i <= Len(mxp.keys)
    /\ ~HasUnderscore(mxp.keys[mxp.i])
    /\ ~IsInAG(mxp.keys[mxp.i])
    /\ mxp.HC3d_bound
    /\ mxp' = [mxp EXCEPT !.i = @ + 1,
                   !.HC3d_proportion = Append(@, mxp.gate[mxp.keys[mxp.i]])]
    /\ UNCHANGED <<dem, aws, dvd>>

\* line 185 with HC3d_proportion not yet assigned: UnboundLocalError
MxpStackUnbound ==
    /\ mxp.pc = "stack"
    /\ mxp.i <= Len(mxp.keys)
    /\ ~HasUnderscore(mxp.keys[mxp.i])
    /\ ~IsInAG(mxp.keys[mxp.i])
    /\ ~mxp.HC3d_bound
    /\ mxp' = [mxp EXCEPT !.pc = "raised", !.err = "UnboundLocalError"]
    /\ UNCHANGED <<dem, aws, dvd>>

\* lines 186-187: the stack has three dimensions; HC at every gate
MxpArgmax ==
    /\ mxp.pc = "stack"
    /\ mxp.i > Len(mxp.keys)
    /\ Len(mxp.HC3d_proportion) >= 2
    /\ mxp' = [mxp EXCEPT !.pc = "habits", !.hc_done = TRUE,
                   !.HC = Filled(mxp.nb, MostProbableHabit(mxp.HC3d_proportion))]
    /\ UNCHANGED <<dem, aws, dvd>>

\* line 186 on the two-dimensional array of AG alone: axis 2 is out of bounds
MxpArgmaxAxisError ==
    /\ mxp.pc = "stack"
    /\ mxp.i > Len(mxp.keys)
    /\ Len(mxp.HC3d_proportion) < 2
    /\ mxp' = [mxp EXCEPT !.pc = "raised", !.err = "AxisError"]
    /\ UNCHANGED <<dem, aws, dvd>>

\* lines 190-209: add the eight layers and HC as fields (their shape is the
\* shape the radar was made with)
MxpAddHabitFields ==
    /\ mxp.pc = "habits"
    /\ MissingHabits(mxp.keys) = {}
    /\ LET added == (Habits \cap DOMAIN mxp.gate) \cup {k_HC}
       IN  mxp' = [mxp EXCEPT !.pc = "variables",
                       !.radar.fields =
                           [f \in added |->
                               IF f = k_HC THEN mxp.HC
                               ELSE Filled(mxp.nb, mxp.gate[f])]]
    /\ UNCHANGED <<dem, aws, dvd>>

\* line 200: HC_proportion[_str] for a layer the bundle lacks: KeyError
MxpMissingKey ==
    /\ mxp.pc = "habits"
    /\ MissingHabits(mxp.keys) # {}
    /\ mxp' = [mxp EXCEPT !.pc = "raised", !.err = "KeyError"]
    /\ UNCHANGED <<dem, aws, dvd>>

\* the radar variables of the volume, one value per ray at the gate
Zdr(vol) == [n \in DOMAIN vol |-> n]

Zh(vol) == [n \in DOMAIN vol |-> 10 + n]

Kdp(vol) == [n \in DOMAIN vol |-> 20 + n]

Time(vol) == [n \in DOMAIN vol |-> 100 * n]

\* ZDR - 4.5, in tenths of a dB
ZdrCalibrated(zdr) == [n \in DOMAIN zdr |-> <<"tenths", 10 * zdr[n] - 45>>]

\* lines 212-235: mask Zdr, Zh, Kdp and add them; add_field accepts data of
\* the radar's shape only
MxpAddVariables ==
    /\ mxp.pc = "variables"
    /\ Len(BoolIndex(Kdp(mxp.volume), mxp.wh_hc)) = mxp.radar.nrays
    /\ LET ZDR == BoolIndex(Zdr(mxp.volume), mxp.wh_hc)
           Z == BoolIndex(Zh(mxp.volume), mxp.wh_hc)
           KDP == BoolIndex(Kdp(mxp.volume), mxp.wh_hc)
           old == mxp.radar.fields
       IN  mxp' = [mxp EXCEPT !.pc = "axes",
                       !.radar.fields =
                           [f \in DOMAIN old \cup {k_KDP, k_ZDR, k_ZHH} |->
                               IF f = k_KDP THEN KDP
                               ELSE IF f = k_ZDR THEN ZdrCalibrated(ZDR)
                               ELSE IF f = k_ZHH THEN Z
                               ELSE old[f]]]
    /\ UNCHANGED <<dem, aws, dvd>>

\* line 221: the masked KDP has another shape than the radar: ValueError
MxpShapeError ==
    /\ mxp.pc = "variables"
    /\ Len(BoolIndex(Kdp(mxp.volume), mxp.wh_hc)) # mxp.radar.nrays
    /\ mxp' = [mxp EXCEPT !.pc = "raised", !.err = "ValueError"]
    /\ UNCHANGED <<dem, aws, dvd>>

\* lines 238-251: elevation, azimuth, fixed angle, time; return radar
MxpFinish ==
    /\ mxp.pc = "axes"
    /\ LET azimuth == AzimuthCorrect(
                          BoolIndex([n \in DOMAIN mxp.volume |-> mxp.volume[n].Az],
                                    mxp.wh_hc))
       IN  mxp' = [mxp EXCEPT !.pc = "returned",
                       !.radar.elevation = mxp.El,
                       !.radar.azimuth = azimuth,
                       !.radar.fixed_angle = azimuth,
                       !.radar.time = Time(mxp.volume)]
    /\ UNCHANGED <<dem, aws, dvd>>

NextMxp ==
    \/ MxpLoad
    \/ MxpNoAG
    \/ MxpSkipReserved
    \/ MxpStartStack
    \/ MxpStack
    \/ MxpStackUnbound
    \/ MxpArgmax
    \/ MxpArgmaxAxisError
    \/ MxpAddHabitFields
    \/ MxpMissingKey
    \/ MxpAddVariables
    \/ MxpShapeError
    \/ MxpFinish

\* the bundle is varied, with one-ray layers and a few volumes
InitHc ==
    /\ \E order \in KeyOrders, v \in GateVectors, vol \in FewVolumes :
          mxp = MxpState(order, v, 1, vol)
    /\ dem = Idle
    /\ aws = Idle
    /\ dvd = Idle

SpecHc == InitHc /\ [][NextMxp]_vars

\* the volume and the number of rays of the bundle are varied, with a few
\* bundles
InitRhi ==
    /\ \E order \in FewKeyOrders, v \in FewGateVectors, vol \in Volumes,
          nb \in 1..MaxRays :
          mxp = MxpState(order, v, nb, vol)
    /\ dem = Idle
    /\ aws = Idle
    /\ dvd = Idle

SpecRhi == InitRhi /\ [][NextMxp]_vars

\* the layers of the bundle in the order it yields them, reserved keys left
\* out, as proportions at the gate
PresentLayers ==
    LET present == SelectSeq(mxp.keys, LAMBDA key : key \in Habits)
    IN  [n \in DOMAIN present |-> mxp.gate[present[n]]]

\* layer n of the documented order holds the strict maximum at the gate
StrictMaximum(n) ==
    /\ ~IsNaN(mxp.gate[list_str[n]])
    /\ \A m \in DOMAIN list_str :
          m # n => /\ ~IsNaN(mxp.gate[list_str[m]])
                   /\ mxp.gate[list_str[m]][2] < mxp.gate[list_str[n]][2]

\* C1: with the eight layers present, at a gate where AG is not NaN and one
\* layer holds the strict maximum, HC is the index of that layer in the
\* order AG(0), CR(1), IH(2), LR(3), MH(4), RN(5), RP(6), WS(7), whatever the
\* order in which the bundle yields its keys.
C1_HabitIndexAnyOrder ==
    (mxp.pc # "idle" /\ Habits \subseteq KeySet(mxp.keys) /\ mxp.hc_done
        /\ ~IsNaN(mxp.gate[k_AG]))
    => \A n \in DOMAIN list_str :
          StrictMaximum(n) => \A r \in DOMAIN mxp.HC : mxp.HC[r] = FloatOf(n - 1)

\* the rays of the volume whose elevation lies strictly between 5 and 175
KeptRays == { n \in DOMAIN mxp.volume :
                mxp.volume[n].El > 5 /\ mxp.volume[n].El < 175 }

\* C2: in the returned radar the ray count of every field and of the
\* elevation, azimuth and time arrays is the number of rays whose elevation
\* lies strictly between 5 and 175.
C2_AllArraysMasked ==
    (mxp.pc = "returned") =>
        /\ DOMAIN mxp.radar.fields = Habits \cup {k_HC, k_KDP, k_ZDR, k_ZHH}
        /\ \A f \in DOMAIN mxp.radar.fields :
              Len(mxp.radar.fields[f]) = Cardinality(KeptRays)
        /\ Len(mxp.radar.elevation) = Cardinality(KeptRays)
        /\ Len(mxp.radar.azimuth) = Cardinality(KeptRays)
        /\ Len(mxp.radar.time) = Cardinality(KeptRays)

\* C3: once HC is computed, HC at a gate is NaN exactly when the AG layer is
\* NaN there, whatever the seven other layers hold, and is otherwise one of
\* 0..7.
C3_NanExactlyWhereAGNan ==
    (mxp.pc # "idle" /\ mxp.hc_done) =>
        \A r \in DOMAIN mxp.HC :
            /\ IsNaN(mxp.HC[r]) <=> IsNaN(mxp.gate[k_AG])
            /\ ~IsNaN(mxp.HC[r]) => mxp.HC[r] \in { FloatOf(n) : n \in 0..7 }

\* C3 witness: AG is NaN at the gate while another layer holds the largest
\* proportion, and the computed HC is NaN.
C3_Witness ==
    /\ mxp.pc = "returned"
    /\ IsNaN(mxp.gate[k_AG])
    /\ mxp.gate[k_RN] = FloatOf(2)
    /\ mxp.radar.fields[k_HC] = <<NaN>>

\* the azimuths of the kept rays, in ray order
KeptAzimuth ==
    LET pick == CHOOSE q \in [1..Cardinality(KeptRays) -> KeptRays] :
                   \A a, b \in DOMAIN q : a < b => q[a] < q[b]
    IN  [n \in DOMAIN pick |-> mxp.volume[pick[n]].Az]

\* C9 as stated: every returned azimuth lies in [0, 360).
C9_AzimuthInRange ==
    (mxp.pc = "returned") =>
        \A n \in DOMAIN mxp.radar.azimuth :
            0 <= mxp.radar.azimuth[n] /\ mxp.radar.azimuth[n] < 360

\* C9 amended: the returned azimuth is the kept azimuth plus 360 at every
\* ray when the first kept value is negative, and the kept azimuth unchanged
\* otherwise; it lies in [0, 360) when the kept values all have the sign of
\* the first one.
C9_AzimuthWholeArray ==
    (mxp.pc = "returned") =>
        LET kept == KeptAzimuth
            out == mxp.radar.azimuth
        IN  /\ Len(out) = Len(kept)
            /\ \A n \in DOMAIN kept :
                  out[n] = IF kept[1] < 0 THEN kept[n] + 360 ELSE kept[n]
            /\ (\A n \in DOMAIN kept : (kept[n] < 0) <=> (kept[1] < 0))
                  => \A n \in DOMAIN out : 0 <= out[n] /\ out[n] < 360

\* C9 witness: two kept rays, the first with a negative azimuth and the
\* second with a positive one, returned as 350 and 370.
C9_Witness ==
    /\ mxp.pc = "returned"
    /\ Cardinality(KeptRays) = 2
    /\ KeptAzimuth = <<-10, 10>>
    /\ mxp.radar.azimuth = <<350, 370>>

\* C10 as stated: a bundle lacking some of the eight keys raises no error and
\* a radar is returned.
C10_MissingKeyReturns ==
    (mxp.pc \in {"returned", "raised"} /\ Habits \ KeySet(mxp.keys) # {})
        => mxp.pc = "returned"

\* C10 amended: a bundle lacking some of the eight keys never yields a radar.
\* The stacking loop omits the missing layers without a check: when it gets
\* through, HC is the arg-max over the layers present (NaN where AG is NaN)
\* and the call raises KeyError when the fields are added; without AG the
\* call raises KeyError before the loop; otherwise the loop or the arg-max
\* raises.
C10_MissingKeyRaises ==
    (mxp.pc # "idle" /\ Habits \ KeySet(mxp.keys) # {}) =>
        /\ mxp.pc # "returned"
        /\ mxp.pc = "raised" =>
              IF k_AG \notin KeySet(mxp.keys)
              THEN mxp.err = "KeyError" /\ ~mxp.hc_done
              ELSE IF mxp.hc_done
              THEN /\ mxp.err = "KeyError"
                   /\ \A r \in DOMAIN mxp.HC :
                         mxp.HC[r] = IF IsNaN(PresentLayers[1]) THEN NaN
                                     ELSE FloatOf(ArgMax(PresentLayers))
              ELSE mxp.err \in {"UnboundLocalError", "AxisError"}

\* C10 witness: the bundle lacks WS, HC was computed over the seven layers
\* present as the index of the largest one, and the call raised KeyError.
C10_Witness ==
    /\ mxp.pc = "raised"
    /\ mxp.err = "KeyError"
    /\ Habits \ KeySet(mxp.keys) = {k_WS}
    /\ mxp.hc_done
    /\ mxp.gate[k_RP] = FloatOf(2)
    /\ ~IsNaN(mxp.gate[k_AG])
    /\ mxp.HC = <<FloatOf(6)>>

=============================================================================
